---------------------------- MODULE Spec2Model ----------------------------
(***************************************************************************)
(* Model of the audio pipeline of pollinations-ai-text-generation:         *)
(*   - PCMProcessor (audio-worklet.js): the playback buffer fed through    *)
(*     the worklet port and drained by process();                          *)
(*   - bufferToWav (src/utils/audio-utils.js) and writeWav (wav-worker.js):*)
(*     the WAV encoders.                                                   *)
(* Spec is the playback buffer; SpecWav is the encoders.                   *)
(***************************************************************************)
EXTENDS Integers, Sequences, FiniteSets, TLC

(***************************************************************************)
(* Bounds of the model.                                                    *)
(***************************************************************************)
MaxBlock == 2
MaxChunkLen == 3
MaxPosts == 2
MaxPort == 2

\* The channel counts of outputs[0]: mono and stereo.
ChannelCounts == {1, 2}

VARIABLES
    \* PCMProcessor fields
    bufferQueue, buffer, shouldStop,
    \* messages posted to the worklet port and not yet handled
    port,
    \* the shape of outputs[0] the host hands to process()
    outputLength, numChannels,
    \* outputs[0] and the return value of the last process() call
    output, ret,
    \* history: samples handled by onmessage, samples emitted without
    \* padding, last operation, bookkeeping of STOP
    pushed, emitted, op, posts, sent, stopTotal, stopEmpty, callsSinceStop,
    pushedSinceStop,
    \* the WAV encoders: the call, its position, the bytes returned and the
    \* caller's input array as the call leaves it
    wavCall, wavPc, wavOut, wavArg,
    \* the sample converters: the call, its position and the array returned
    dspCall, dspPc, dspOut,
    \* the API service: the call with the response the server gives, its
    \* position, the value returned and the exception in flight or thrown
    apiCall, apiPc, apiValue, apiError,
    \* parseSSEStream: the stream given, the characters read so far, the
    \* line buffer, the callbacks called and the position of the call
    sseStream, ssePos, sseBuffer, sseCalls, ssePc,
    \* history: a payload was delivered from a line begun in an earlier read
    sseJoined,
    \* debounce: wait, the clock, the timeout variable, the timers pending
    \* in the host, the calls of the wrapper and the invocations of func
    dbWait, dbNow, dbTimeout, dbTimers, dbCalls, dbInvoked,
    \* throttle: limit, the clock, inThrottle, the timers pending in the
    \* host, the calls of the wrapper and the invocations of func
    thLimit, thNow, inThrottle, thTimers, thCalls, thInvoked,
    \* useChatHistory: its two states, the last operation and what
    \* window.confirm answered in it
    enableMemory, chatHistory, memOp, memAnswer,
    \* restartAudioWorklet: the calls made, the nodes created and
    \* connected, and the two refs
    awCalls, awCreated, awConnected, awNodeRef, awCtxRef,
    \* useModelSelection: the props, the hook state, the fetches in
    \* flight, the dependencies changed since the last effects pass and
    \* the effects that set state in that pass
    msBatched, msTab, msVoice, msModels, msModel, msLast, msFetches,
    msDirty, msFired

pcmVars == <<bufferQueue, buffer, shouldStop, port, outputLength,
             numChannels, output, ret, pushed, emitted, op, posts,
             sent, stopTotal, stopEmpty, callsSinceStop, pushedSinceStop>>

wavVars == <<wavCall, wavPc, wavOut, wavArg>>

dspVars == <<dspCall, dspPc, dspOut>>

apiVars == <<apiCall, apiPc, apiValue, apiError>>

sseVars == <<sseStream, ssePos, sseBuffer, sseCalls, ssePc, sseJoined>>

debounceVars == <<dbWait, dbNow, dbTimeout, dbTimers, dbCalls, dbInvoked>>

throttleVars == <<thLimit, thNow, inThrottle, thTimers, thCalls, thInvoked>>

memoryVars == <<enableMemory, chatHistory, memOp, memAnswer>>

restartVars == <<awCalls, awCreated, awConnected, awNodeRef, awCtxRef>>

selectVars == <<msBatched, msTab, msVoice, msModels, msModel, msLast, msFetches, msDirty, msFired>>

vars == <<pcmVars, wavVars, dspVars, apiVars,
         sseVars,
         debounceVars,
         throttleVars,
         memoryVars,
         restartVars,
         selectVars>>

\* What the actions of one component leave unchanged.
notPcm == <<wavVars, dspVars, apiVars,
            sseVars,
            debounceVars,
            throttleVars,
            memoryVars,
            restartVars,
            selectVars>>
notWav == <<pcmVars, dspVars, apiVars,
            sseVars,
            debounceVars,
            throttleVars,
            memoryVars,
            restartVars,
            selectVars>>
notDsp == <<pcmVars, wavVars, apiVars,
            sseVars,
            debounceVars,
            throttleVars,
            memoryVars,
            restartVars,
            selectVars>>
notApi == <<pcmVars, wavVars, dspVars,
            sseVars,
            debounceVars,
            throttleVars,
            memoryVars,
            restartVars,
            selectVars>>
notSse == <<pcmVars, wavVars, dspVars, apiVars,
            debounceVars,
            throttleVars,
            memoryVars,
            restartVars,
            selectVars>>
notDebounce == <<pcmVars, wavVars, dspVars, apiVars, sseVars,
                 throttleVars,
                 memoryVars,
                 restartVars,
                 selectVars>>
notThrottle == <<pcmVars, wavVars, dspVars, apiVars, sseVars, debounceVars,
                 memoryVars,
                 restartVars,
                 selectVars>>
notMemory == <<pcmVars, wavVars, dspVars, apiVars, sseVars, debounceVars, throttleVars,
               restartVars,
               selectVars>>
notRestart == <<pcmVars, wavVars, dspVars, apiVars, sseVars, debounceVars, throttleVars, memoryVars,
                selectVars>>
notSelect == <<pcmVars, wavVars, dspVars, apiVars, sseVars, debounceVars, throttleVars, memoryVars, restartVars>>

\* No playback session is running / no encoder call / no converter call is
\* under way.
NoPlayback ==
    /\ bufferQueue = <<>> /\ buffer = <<>> /\ shouldStop = FALSE
    /\ port = <<>> /\ outputLength = 1 /\ numChannels = 1
    /\ output = <<>> /\ ret = TRUE /\ pushed = <<>> /\ emitted = <<>>
    /\ op = "init" /\ posts = 0 /\ sent = 0 /\ stopTotal = -1
    /\ stopEmpty = FALSE /\ callsSinceStop = 0 /\ pushedSinceStop = FALSE
NoEncoderCall ==
    /\ wavCall = [fn |-> "none"]
    /\ wavPc = "idle"
    /\ wavOut = <<>>
    /\ wavArg = <<>>
NoDspCall ==
    /\ dspCall = [fn |-> "none"]
    /\ dspPc = "idle"
    /\ dspOut = [name |-> "none", den |-> 1, data |-> <<>>]
NoApiCall ==
    /\ apiCall = [fn |-> "none"]
    /\ apiPc = "idle"
    /\ apiValue = [type |-> "undefined"]
    /\ apiError = [name |-> "none", message |-> ""]
NoSseParse ==
    /\ sseStream = [text |-> <<>>, mayFail |-> FALSE]
    /\ ssePos = 0
    /\ sseBuffer = <<>>
    /\ sseCalls = <<>>
    /\ ssePc = "idle"
    /\ sseJoined = FALSE
NoDebounce ==
    /\ dbWait = 0
    /\ dbNow = 0
    /\ dbTimeout = 0
    /\ dbTimers = {}
    /\ dbCalls = <<>>
    /\ dbInvoked = <<>>
NoThrottle ==
    /\ thLimit = 0
    /\ thNow = 0
    /\ inThrottle = FALSE
    /\ thTimers = {}
    /\ thCalls = <<>>
    /\ thInvoked = <<>>
NoChatHistory ==
    /\ enableMemory = FALSE
    /\ chatHistory = <<>>
    /\ memOp = "none"
    /\ memAnswer = "not asked"
NoRestart ==
    /\ awCalls = <<>>
    /\ awCreated = {}
    /\ awConnected = {}
    /\ awNodeRef = 0
    /\ awCtxRef = 0
NoModelSelection ==
    /\ msBatched = FALSE
    /\ msTab = "text"
    /\ msVoice = FALSE
    /\ msModels = <<>>
    /\ msModel = "openai"
    /\ msLast = <<>>
    /\ msFetches = <<>>
    /\ msDirty = {}
    /\ msFired = {}

(***************************************************************************)
(* Helpers.                                                                *)
(***************************************************************************)
Min(a, b) == IF a <= b THEN a ELSE b
Max(a, b) == IF a >= b THEN a ELSE b
CeilDiv(a, b) == (a + b - 1) \div b

SeqsUpTo(S, n) == UNION {[1..k -> S] : k \in 0..n}

RECURSIVE Flatten(_)
Flatten(q) == IF q = <<>> THEN <<>> ELSE Head(q) \o Flatten(Tail(q))

IsPrefix(s, t) == Len(s) <= Len(t) /\ SubSeq(t, 1, Len(s)) = s

\* The processor never reads the value of a sample, so the samples are
\* numbered in the order they are posted: a chunk of length k posted after
\* s samples is <<s+1, ..., s+k>>.  No sample is 0, the padding value.
NewChunk(s, k) == [i \in 1..k |-> s + i]

\* A position of an output array that process() has not written.
Unwritten == -1

ChunkMsg(c) == [stop |-> FALSE, data |-> c]
StopMsg == [stop |-> TRUE, data |-> <<>>]

(***************************************************************************)
(* Typed-array operations used by process().                               *)
(***************************************************************************)
\* target.set(src, offset): copies src into target starting at offset.
TypedSet(target, src, offset) ==
    [i \in 1..Len(target) |->
        IF i > offset /\ i <= offset + Len(src) THEN src[i - offset]
        ELSE target[i]]

\* target.fill(v, start): writes v at every index >= start.
TypedFill(target, v, start) ==
    [i \in 1..Len(target) |-> IF i > start THEN v ELSE target[i]]

\* arr.subarray(begin, end), end clamped to the length.
Subarray(arr, begin, end) == SubSeq(arr, begin + 1, Min(end, Len(arr)))

\* this.bufferQueue.push(event.data)
QueuePushReplacing(q, data) == <<data>>
QueuePush(q, data) == Append(q, data)

\* new Float32Array(a.length + b.length); set(a); set(b, a.length)
ConcatChunkNewFirst(buf, newBuffer) == newBuffer \o buf
ConcatChunk(buf, newBuffer) ==
    TypedSet(TypedSet([i \in 1..(Len(buf) + Len(newBuffer)) |-> 0], buf, 0),
             newBuffer, Len(buf))

\* The while loop of process(): shift chunks into the working buffer until
\* it holds outputLength samples or the queue is empty.
RefillOnce(buf, q, n) ==
    IF Len(buf) < n /\ Len(q) > 0
    THEN [buffer |-> ConcatChunk(buf, Head(q)), bufferQueue |-> Tail(q)]
    ELSE [buffer |-> buf, bufferQueue |-> q]
RECURSIVE Refill(_, _, _)
Refill(buf, q, n) ==
    IF Len(buf) < n /\ Len(q) > 0
    THEN Refill(ConcatChunk(buf, Head(q)), Tail(q), n)
    ELSE [buffer |-> buf, bufferQueue |-> q]

\* The three filling branches of process() for one output channel.
FillChannelNoPad(chan, buf, n) ==
    IF Len(buf) >= n THEN TypedSet(chan, Subarray(buf, 0, n), 0)
    ELSE IF Len(buf) > 0 THEN TypedSet(chan, buf, 0)
    ELSE TypedFill(chan, 0, 0)
FillChannel(chan, buf, n) ==
    IF Len(buf) >= n THEN TypedSet(chan, Subarray(buf, 0, n), 0)
    ELSE IF Len(buf) > 0 THEN TypedFill(TypedSet(chan, buf, 0), 0, Len(buf))
    ELSE TypedFill(chan, 0, 0)

\* The working buffer left by the filling branches.
RemainingDropped(buf, n) == <<>>
Remaining(buf, n) ==
    IF Len(buf) >= n THEN Subarray(buf, n, Len(buf)) ELSE <<>>

\* The return value of process().
KeepAliveIgnoringBuffer(stop, q, buf) == ~(stop /\ Len(q) = 0)
KeepAliveForever(stop, q, buf) == TRUE
KeepAlive(stop, q, buf) == ~(stop /\ Len(q) = 0 /\ Len(buf) = 0)

Total == Len(buffer) + Len(Flatten(bufferQueue))
Buffered == buffer \o Flatten(bufferQueue)

(***************************************************************************)
(* The playback buffer.                                                    *)
(***************************************************************************)
\* enqueueAudioData: the producer posts a chunk and never waits.
EnqueueAudioData(k) ==
    /\ posts < MaxPosts
    /\ Len(port) < MaxPort
    /\ port' = Append(port, ChunkMsg(NewChunk(sent, k)))
    /\ posts' = posts + 1
    /\ sent' = sent + k
    /\ UNCHANGED <<bufferQueue, buffer, shouldStop, outputLength, numChannels,
                   output, ret, pushed, emitted, op, stopTotal, stopEmpty,
                   callsSinceStop, pushedSinceStop, notPcm>>

\* stopAudioWorklet: posts "STOP" on the same port.
StopAudioWorklet ==
    /\ Len(port) < MaxPort
    /\ port' = Append(port, StopMsg)
    /\ UNCHANGED <<bufferQueue, buffer, shouldStop, outputLength, numChannels,
                   output, ret, pushed, emitted, op, posts, sent, stopTotal,
                   stopEmpty, callsSinceStop, pushedSinceStop, notPcm>>

\* port.onmessage: handles the oldest message in flight.
OnMessage ==
    /\ port # <<>>
    /\ port' = Tail(port)
    /\ IF Head(port).stop
       THEN /\ shouldStop' = TRUE
            /\ op' = "stop"
            /\ IF shouldStop
               THEN UNCHANGED <<stopTotal, stopEmpty>>
               ELSE /\ stopTotal' = Total
                    /\ stopEmpty' = (\E i \in 1..Len(bufferQueue) :
                                         bufferQueue[i] = <<>>)
            /\ UNCHANGED <<bufferQueue, pushed, callsSinceStop,
                           pushedSinceStop>>
       ELSE /\ bufferQueue' = QueuePush(bufferQueue, Head(port).data)
            /\ pushed' = pushed \o Head(port).data
            /\ op' = "push"
            /\ pushedSinceStop' = (pushedSinceStop \/ shouldStop)
            /\ UNCHANGED <<shouldStop, stopTotal, stopEmpty, callsSinceStop>>
    /\ UNCHANGED <<buffer, outputLength, numChannels, output, ret, emitted,
                   posts, sent, notPcm>>

\* process(inputs, outputs, parameters), called by the audio clock while the
\* processor is alive.  The output arrays arrive with no position written.
Process ==
    /\ ret = TRUE
    /\ LET blank == [i \in 1..outputLength |-> Unwritten]
           r == Refill(buffer, bufferQueue, outputLength)
           taken == Min(outputLength, Total)
       IN /\ output' = [ch \in 1..numChannels |->
                           FillChannel(blank, r.buffer, outputLength)]
          /\ buffer' = Remaining(r.buffer, outputLength)
          /\ bufferQueue' = r.bufferQueue
          /\ ret' = KeepAlive(shouldStop, r.bufferQueue,
                              Remaining(r.buffer, outputLength))
          /\ emitted' = emitted \o SubSeq(output'[1], 1, taken)
    /\ op' = "process"
    /\ callsSinceStop' = IF shouldStop THEN callsSinceStop + 1 ELSE 0
    /\ UNCHANGED <<shouldStop, port, outputLength, numChannels, pushed, posts,
                   sent, stopTotal, stopEmpty, pushedSinceStop, notPcm>>

NextPCM ==
    \/ \E k \in 0..MaxChunkLen : EnqueueAudioData(k)
    \/ StopAudioWorklet
    \/ OnMessage
    \/ Process

(***************************************************************************)
(* Properties of the playback buffer (checked under Spec).                 *)
(***************************************************************************)
ZeroPad(n) == [i \in 1..n |-> 0]

\* C1: every process() call writes all outputLength positions of every
\* output channel, whether the buffered data is enough, partial or absent:
\* after a call no position of outputs[0] is left unwritten.
C1_EveryPositionWritten ==
    output # <<>> =>
        /\ Len(output) = numChannels
        /\ \A ch \in 1..numChannels :
              /\ Len(output[ch]) = outputLength
              /\ \A i \in 1..outputLength : output[ch][i] # Unwritten

\* C1 witness: an underrun on two channels, data followed by padding.
C1_Witness ==
    /\ op = "process"
    /\ numChannels = 2
    /\ outputLength = 2
    /\ output[2][1] > 0
    /\ output[2][2] = 0

\* C2: a process() call made with m samples buffered (working buffer, then
\* the queued chunks in arrival order) outputs the first min(n, m) of them
\* in order followed by n - min(n, m) zeros, and removes exactly those.
C2_PullTakesBufferedPrefix ==
    [][Process =>
        LET m == Total
            k == Min(outputLength, m)
        IN /\ \A ch \in 1..numChannels :
                 output'[ch] = SubSeq(Buffered, 1, k)
                                   \o ZeroPad(outputLength - k)
           /\ buffer' \o Flatten(bufferQueue') = SubSeq(Buffered, k + 1, m)
    ]_vars

\* C2 witness: one chunk of length 1 pushed into the empty buffer and pulled
\* with n = 2: the sample, then one zero.
C2_Witness ==
    /\ op = "process"
    /\ pushed = <<1>>
    /\ outputLength = 2
    /\ output[1] = <<1, 0>>
    /\ Total = 0

\* C3: for every interleaving of chunk arrivals and process() calls, the
\* emitted samples (padding removed) followed by the samples still buffered
\* are exactly the pushed samples in arrival order: what was emitted is a
\* prefix of what was pushed, nothing is lost, duplicated or reordered, and
\* a zero-length chunk adds nothing.
C3_EmittedIsPrefixOfPushed ==
    /\ IsPrefix(emitted, pushed)
    /\ emitted \o Buffered = pushed
    /\ pushed = NewChunk(0, Len(pushed))

\* C3 witness: more than one block emitted, data still buffered, and a
\* zero-length chunk in the queue.
C3_Witness ==
    /\ Len(emitted) > outputLength
    /\ Total > 0
    /\ \E i \in 1..Len(bufferQueue) : bufferQueue[i] = <<>>

\* C4: process() returns false only if STOP has been received and the call
\* leaves the queue and the working buffer empty, so that every pushed
\* sample has been emitted when the processor stops; without STOP it
\* returns true.
C4_StopsOnlyWhenDrained ==
    /\ (op = "process" /\ ret = FALSE) =>
          /\ shouldStop
          /\ bufferQueue = <<>>
          /\ buffer = <<>>
          /\ emitted = pushed
    /\ ~shouldStop => ret = TRUE

\* C4 witness: STOP arrived while samples were buffered, and the processor
\* stopped after emitting them.
C4_Witness ==
    /\ op = "process"
    /\ ret = FALSE
    /\ stopTotal > outputLength
    /\ emitted = pushed

\* C5: after STOP, a process() call that finds the queue and the working
\* buffer empty returns false (the terminal marker); the same call without
\* STOP returns true with a block of zeros.
C5_TerminalMarkerWhenEmpty ==
    [][(Process /\ bufferQueue = <<>> /\ buffer = <<>>) =>
        /\ shouldStop => ret' = FALSE
        /\ ~shouldStop =>
              /\ ret' = TRUE
              /\ \A ch \in 1..numChannels : output'[ch] = ZeroPad(outputLength)
    ]_vars

\* C5 witness: STOP arrived at an empty buffer after samples had been
\* played, and the next call returned false.
C5_Witness ==
    /\ op = "process"
    /\ ret = FALSE
    /\ stopTotal = 0
    /\ ~stopEmpty
    /\ ~pushedSinceStop
    /\ callsSinceStop = 1
    /\ Len(emitted) > 0

\* C6 as stated: with m samples buffered at STOP and no later push, the
\* processor has returned false once max(1, ceil(m/n)) calls were made.
C6_StopsAtCeilCalls ==
    (shouldStop /\ ~pushedSinceStop
        /\ callsSinceStop >= Max(1, CeilDiv(stopTotal, outputLength)))
    => ret = FALSE

\* C6 amended: with m samples buffered at STOP and no later push, the
\* processor returns false no earlier than call max(1, ceil(m/n)) and no
\* later than call ceil(m/n) + 1; when no zero-length chunk is queued at
\* STOP it returns false exactly at call max(1, ceil(m/n)).
C6_StopsWithinOneExtraCall ==
    (shouldStop /\ ~pushedSinceStop) =>
        LET c == CeilDiv(stopTotal, outputLength)
        IN /\ callsSinceStop <= c + 1
           /\ callsSinceStop >= c + 1 => ret = FALSE
           /\ ret = FALSE => callsSinceStop >= Max(1, c)
           /\ ~stopEmpty => (ret = FALSE <=> callsSinceStop >= Max(1, c))

\* C6 witness: a zero-length chunk was queued at STOP and the processor
\* stopped one call after the samples ran out.
C6_Witness ==
    /\ ret = FALSE
    /\ ~pushedSinceStop
    /\ stopEmpty
    /\ stopTotal > 0
    /\ callsSinceStop = CeilDiv(stopTotal, outputLength) + 1

\* C7: the total buffered length decreases only in a process() call, which
\* emits a block of outputLength samples and takes min(n, total) of them
\* from the buffer; a push increases it by the chunk length; STOP leaves it
\* unchanged.
C7_TotalOnlyDrainsByProcess ==
    [][/\ Total' < Total =>
              /\ Process
              /\ \A ch \in 1..numChannels : Len(output'[ch]) = outputLength
              /\ Total - Total' = Min(outputLength, Total)
       /\ (OnMessage /\ ~Head(port).stop) =>
              Total' = Total + Len(Head(port).data)
       /\ (OnMessage /\ Head(port).stop) =>
              /\ Total' = Total
              /\ buffer' = buffer
              /\ bufferQueue' = bufferQueue
    ]_vars

\* C7 witness: a push arrived after STOP and a later process() call took
\* part of the buffered samples.
C7_Witness ==
    /\ op = "process"
    /\ pushedSinceStop
    /\ Total > 0
    /\ Len(emitted) > 0

(***************************************************************************)
(* The WAV encoders.  A byte is a number in 0..255; a WAV file is a        *)
(* sequence of bytes.                                                      *)
(***************************************************************************)
\* DataView.setUint16(offset, v, true) and setUint32(offset, v, true): the
\* value modulo the field width, least significant byte first.
U16LE(v) == LET u == v % 65536 IN <<u % 256, u \div 256>>
\* (byte k of v modulo 2^32 is (v \div 256^k) % 256.)
U32BE(v) ==
    <<(v \div 16777216) % 256, (v \div 65536) % 256, (v \div 256) % 256,
      v % 256>>
U32LE(v) ==
    <<v % 256, (v \div 256) % 256, (v \div 65536) % 256,
      (v \div 16777216) % 256>>

\* writeString(view, offset, str): the char codes of the four tags.
TagRIFF == <<82, 73, 70, 70>>
TagWAVE == <<87, 65, 86, 69>>
TagFmt == <<102, 109, 116, 32>>
TagData == <<100, 97, 116, 97>>

\* bitsPerSample / 8, for the bit depths that are whole bytes.
SampleSize(bitsPerSample) == bitsPerSample \div 8

\* combinedChunks after the odd-length trim of bufferToWav.
TrimOddSkipped(combinedChunks) == combinedChunks
TrimOdd(combinedChunks) ==
    IF Len(combinedChunks) % 2 # 0
    THEN SubSeq(combinedChunks, 1, Len(combinedChunks) - 1)
    ELSE combinedChunks

\* bufferToWav computes expectedSamples = length / sampleSize, remainder =
\* expectedSamples % sampleRate and missingSamples = (sampleRate - remainder)
\* % sampleRate as reals.  They are kept exactly here as numerators over
\* sampleSize: MissingTimesSize = missingSamples * sampleSize.
RemainderTimesSize(len, sampleRate, sampleSize) ==
    len % (sampleRate * sampleSize)
MissingTimesSize(len, sampleRate, sampleSize) ==
    (sampleRate * sampleSize - RemainderTimesSize(len, sampleRate, sampleSize))
        % (sampleRate * sampleSize)

\* paddingSize = missingSamples * numChannels * sampleSize
PaddingSize(len, sampleRate, channels, sampleSize) ==
    MissingTimesSize(len, sampleRate, sampleSize) * channels

\* paddedData: the trimmed input followed by the zero padding.
PaddedData(chunks, sampleRate, channels, bitsPerSample) ==
    LET paddingSize == PaddingSize(Len(chunks), sampleRate, channels,
                                   SampleSize(bitsPerSample))
        padding == [i \in 1..paddingSize |-> 0]
        zeroed == [i \in 1..(Len(chunks) + paddingSize) |-> 0]
    IN TypedSet(TypedSet(zeroed, chunks, 0), padding, Len(chunks))

\* The 44-byte header of bufferToWav.
WavHeaderTotal(totalSize, dataSize, sampleRate, channels, bitsPerSample) ==
    TagRIFF \o U32LE(totalSize) \o TagWAVE \o TagFmt \o U32LE(16)
        \o U16LE(1) \o U16LE(channels) \o U32LE(sampleRate)
        \o U32LE(sampleRate * channels * SampleSize(bitsPerSample))
        \o U16LE(channels * SampleSize(bitsPerSample))
        \o U16LE(bitsPerSample) \o TagData \o U32LE(dataSize)
WavHeader(totalSize, dataSize, sampleRate, channels, bitsPerSample) ==
    TagRIFF \o U32LE(totalSize - 8) \o TagWAVE \o TagFmt \o U32LE(16)
        \o U16LE(1) \o U16LE(channels) \o U32LE(sampleRate)
        \o U32LE(sampleRate * channels * SampleSize(bitsPerSample))
        \o U16LE(channels * SampleSize(bitsPerSample))
        \o U16LE(bitsPerSample) \o TagData \o U32LE(dataSize)

HeaderSize == 44

\* The caller's array after the call: slice() copies, and the copy is bound
\* to the parameter only.
CallerArrayAfter(combinedChunks) == combinedChunks

BufferToWav(combinedChunks, sampleRate, channels, bitsPerSample) ==
    LET paddedData == PaddedData(TrimOdd(combinedChunks), sampleRate,
                                 channels, bitsPerSample)
        dataSize == Len(paddedData)
        totalSize == HeaderSize + dataSize
        header == WavHeader(totalSize, dataSize, sampleRate, channels,
                            bitsPerSample)
        wavData == [i \in 1..totalSize |-> 0]
    IN TypedSet(TypedSet(wavData, header, 0), paddedData, HeaderSize)

\* A floating sample is the rational num / SampleDen.
SampleDen == 4

\* Storing a number into an Int16Array: truncation toward zero, then
\* wrapping to 16 bits.
TruncDiv(a, b) == IF a >= 0 THEN a \div b ELSE -((-a) \div b)
ToInt16(x) == LET u == x % 65536 IN IF u >= 32768 THEN u - 65536 ELSE u

\* s = Math.max(-1, Math.min(1, channel[j]));
\* output[j] = s < 0 ? s * 0x8000 : s * 0x7FFF
\* (the sample is num / den)
EncodeSample(num, den) ==
    LET s == Max(-den, Min(den, num))
    IN ToInt16(TruncDiv(IF s < 0 THEN s * 32768 ELSE s * 32767, den))

FloatToInt16(num) == EncodeSample(num, SampleDen)

\* new Uint8Array(output.buffer): the bytes of an Int16Array (little-endian
\* on every platform a browser runs on).
RECURSIVE Int16Bytes(_)
Int16Bytes(channel) ==
    IF channel = <<>> THEN <<>>
    ELSE U16LE(FloatToInt16(Head(channel))) \o Int16Bytes(Tail(channel))

\* The header of writeWav: 16-bit PCM.
WriteWavHeader(length, sampleRate, numOfChan) ==
    TagRIFF \o U32LE(length - 8) \o TagWAVE \o TagFmt \o U32LE(16)
        \o U16LE(1) \o U16LE(numOfChan) \o U32LE(sampleRate)
        \o U32LE(sampleRate * numOfChan * 2) \o U16LE(numOfChan * 2)
        \o U16LE(16) \o TagData \o U32LE(length - 44)

\* The data loop of writeWav: channel i is written whole at offset, and
\* offset advances by its byte length.
RECURSIVE WriteChannels(_, _, _)
WriteChannels(view, channelData, offset) ==
    IF channelData = <<>> THEN view
    ELSE LET bytes == Int16Bytes(Head(channelData))
         IN WriteChannels(TypedSet(view, bytes, offset), Tail(channelData),
                          offset + Len(bytes))

WriteWav(audioBuffer) ==
    LET numOfChan == audioBuffer.numberOfChannels
        length == audioBuffer.length * numOfChan * 2 + 44
        view == [i \in 1..length |-> 0]
        header == WriteWavHeader(length, audioBuffer.sampleRate, numOfChan)
    IN WriteChannels(TypedSet(view, header, 0),
                     SubSeq(audioBuffer.channelData, 1, numOfChan), 44)

\* Reading the header back.
ReadU16LE(bytes, offset) == bytes[offset + 1] + 256 * bytes[offset + 2]
ReadU32LE(bytes, offset) ==
    bytes[offset + 1] + 256 * bytes[offset + 2] + 65536 * bytes[offset + 3]
        + 16777216 * bytes[offset + 4]

(***************************************************************************)
(* Inputs of the encoders.                                                 *)
(***************************************************************************)
MaxBytes == 4
MaxRate == 3
MaxWavChannels == 2
MaxFrames == 2

ByteVals == {1, 128, 255}
BitDepths == {8, 16, 32}
\* Sample rates of real streams; with them the input is a whole number of
\* seconds only when it is empty.
RealRates == {24000, 44100, 96000}
\* Numerators over SampleDen of the floating samples given to writeWav:
\* a few values for buffers of several samples, and the whole grid from
\* below -1 to above 1 for buffers of one sample.
FloatNums == {-6, -1, 3}
GridNums == (-(SampleDen + 2))..(SampleDen + 2)

BufferToWavCalls ==
    [fn : {"bufferToWav"}, combinedChunks : SeqsUpTo(ByteVals, MaxBytes),
     sampleRate : 1..MaxRate, numChannels : 1..MaxWavChannels,
     bitsPerSample : BitDepths]
    \cup
    [fn : {"bufferToWav"}, combinedChunks : SeqsUpTo(ByteVals, 1),
     sampleRate : RealRates, numChannels : 1..MaxWavChannels,
     bitsPerSample : BitDepths]

\* An AudioBuffer: numberOfChannels channels of length samples each.
WriteWavCalls ==
    UNION {[fn : {"writeWav"},
            channelData : [1..c -> [1..n -> FloatNums]],
            sampleRate : {24000, 44100}, numberOfChannels : {c},
            length : {n}] :
           c \in 1..MaxWavChannels, n \in 0..MaxFrames}
    \cup
    [fn : {"writeWav"}, channelData : [1..1 -> [1..1 -> GridNums]],
     sampleRate : RealRates, numberOfChannels : {1}, length : {1}]

\* An encoder call is about to be made; no playback session is running.
InitWav ==
    /\ wavCall \in BufferToWavCalls \cup WriteWavCalls
    /\ wavPc = "called"
    /\ wavOut = <<>>
    /\ wavArg = IF wavCall.fn = "bufferToWav" THEN wavCall.combinedChunks
                ELSE <<>>
    /\ NoPlayback
    /\ NoDspCall
    /\ NoApiCall
    /\ NoSseParse
    /\ NoDebounce
    /\ NoThrottle
    /\ NoChatHistory
    /\ NoRestart
    /\ NoModelSelection

CallBufferToWav ==
    /\ wavPc = "called"
    /\ wavCall.fn = "bufferToWav"
    /\ wavOut' = BufferToWav(wavCall.combinedChunks, wavCall.sampleRate,
                             wavCall.numChannels, wavCall.bitsPerSample)
    /\ wavArg' = CallerArrayAfter(wavArg)
    /\ wavPc' = "returned"
    /\ UNCHANGED <<wavCall, notWav>>

CallWriteWav ==
    /\ wavPc = "called"
    /\ wavCall.fn = "writeWav"
    /\ wavOut' = WriteWav(wavCall)
    /\ wavPc' = "returned"
    /\ UNCHANGED <<wavCall, wavArg, notWav>>

NextWav == CallBufferToWav \/ CallWriteWav

(***************************************************************************)
(* Properties of the WAV encoders (checked under SpecWav).                 *)
(***************************************************************************)
Returned(fn) == wavPc = "returned" /\ wavCall.fn = fn

\* The bytes after the 44-byte header.
Payload(wav) == SubSeq(wav, HeaderSize + 1, Len(wav))

\* C8: the WAV returned by bufferToWav and by writeWav is 44 bytes plus the
\* (padded) data, its ChunkSize field is the total length - 8 and its
\* Subchunk2Size field is the number of bytes that follow the header.
C8_LengthFieldsMatchBytes ==
    wavPc = "returned" =>
        /\ Len(wavOut) >= HeaderSize
        /\ ReadU32LE(wavOut, 4) = Len(wavOut) - 8
        /\ ReadU32LE(wavOut, 40) = Len(Payload(wavOut))
        /\ wavCall.fn = "bufferToWav" =>
              Len(wavOut) = 44 + Len(PaddedData(TrimOdd(wavCall.combinedChunks),
                                                wavCall.sampleRate,
                                                wavCall.numChannels,
                                                wavCall.bitsPerSample))
        /\ wavCall.fn = "writeWav" =>
              Len(wavOut) = 44 + wavCall.length * wavCall.numberOfChannels * 2

\* C8 witness: bufferToWav padded an odd-length input.
C8_Witness ==
    /\ Returned("bufferToWav")
    /\ Len(wavCall.combinedChunks) = 3
    /\ Len(wavOut) > 44 + 3

\* C9: the header written by bufferToWav reads back, little-endian, as the
\* sampleRate, numChannels and bitsPerSample passed in, with Subchunk1Size
\* 16, AudioFormat 1, ByteRate = sampleRate * numChannels * bytesPerSample
\* and BlockAlign = numChannels * bytesPerSample.
C9_HeaderReadsBack ==
    Returned("bufferToWav") =>
        LET bytesPerSample == wavCall.bitsPerSample \div 8
        IN /\ SubSeq(wavOut, 1, 4) = TagRIFF
           /\ SubSeq(wavOut, 9, 16) = TagWAVE \o TagFmt
           /\ ReadU32LE(wavOut, 16) = 16
           /\ ReadU16LE(wavOut, 20) = 1
           /\ ReadU16LE(wavOut, 22) = wavCall.numChannels
           /\ ReadU32LE(wavOut, 24) = wavCall.sampleRate
           /\ ReadU32LE(wavOut, 28) =
                  wavCall.sampleRate * wavCall.numChannels * bytesPerSample
           /\ ReadU16LE(wavOut, 32) = wavCall.numChannels * bytesPerSample
           /\ ReadU16LE(wavOut, 34) = wavCall.bitsPerSample
           /\ SubSeq(wavOut, 37, 40) = TagData

\* C9 witness: a header for 44100 Hz, two channels, 32 bits.
C9_Witness ==
    /\ Returned("bufferToWav")
    /\ wavCall.sampleRate = 44100
    /\ wavCall.numChannels = 2
    /\ wavCall.bitsPerSample = 32

\* C10: bufferToWav pads with silence to the next whole second: the payload
\* is the input (after the odd-byte trim) followed only by zero bytes, and
\* its length is the smallest multiple of sampleRate * numChannels *
\* bytesPerSample that is not less than the input length, so an input that
\* is a whole number of seconds, the empty one included, gets no padding.
C10_PadsToWholeSecond ==
    Returned("bufferToWav") =>
        LET input == TrimOdd(wavCall.combinedChunks)
            second == wavCall.sampleRate * wavCall.numChannels
                          * (wavCall.bitsPerSample \div 8)
            payload == Payload(wavOut)
        IN /\ Len(payload) >= Len(input)
           /\ SubSeq(payload, 1, Len(input)) = input
           /\ \A i \in (Len(input) + 1)..Len(payload) : payload[i] = 0
           /\ Len(payload) = CeilDiv(Len(input), second) * second

\* C11: the data payload written by bufferToWav is a whole number of
\* frames: its length is a multiple of the block alignment
\* numChannels * (bitsPerSample / 8), whatever the input length, the channel
\* count and the bit depth.
C11_PayloadIsWholeFrames ==
    Returned("bufferToWav") =>
        Len(Payload(wavOut))
            % (wavCall.numChannels * (wavCall.bitsPerSample \div 8)) = 0

\* C12: for an input of odd length bufferToWav returns a WAV whose payload
\* starts with every byte of the input but the last, each at its own
\* position, and holds nothing else of the input (what follows is padding);
\* the caller's array is as it was before the call.
C12_OddInputLosesLastByteOnly ==
    (Returned("bufferToWav") /\ Len(wavCall.combinedChunks) % 2 = 1) =>
        LET input == wavCall.combinedChunks
            kept == Len(input) - 1
            payload == Payload(wavOut)
        IN /\ Len(wavOut) >= HeaderSize
           /\ SubSeq(wavOut, 1, 4) = TagRIFF
           /\ Len(payload) >= kept
           /\ \A i \in 1..kept : payload[i] = input[i]
           /\ \A i \in (kept + 1)..Len(payload) : payload[i] = 0
           /\ wavArg = input

C12_Witness ==
    /\ Returned("bufferToWav")
    /\ Len(wavCall.combinedChunks) = 3
    /\ wavCall.combinedChunks[3] # 0
    /\ wavCall.numChannels = 2
    /\ SubSeq(Payload(wavOut), 1, 2) = SubSeq(wavArg, 1, 2)

\* A signed 16-bit little-endian read, as a WAV reader does it.
ReadI16LE(bytes, offset) == ToInt16(ReadU16LE(bytes, offset))

\* C13: writeWav interleaves the channels: with C >= 2 channels the sample
\* of frame f, channel c is the 16-bit value at byte offset
\* 44 + 2 * (f * C + c).
C13_ChannelsInterleaved ==
    (Returned("writeWav") /\ wavCall.numberOfChannels >= 2) =>
        LET C == wavCall.numberOfChannels
        IN \A f \in 0..(wavCall.length - 1), c \in 0..(C - 1) :
               ReadI16LE(wavOut, HeaderSize + 2 * (f * C + c))
                   = FloatToInt16(wavCall.channelData[c + 1][f + 1])

\* Math.round of the rational num / den: the nearest integer, halves up.
RoundHalfUp(num, den) == (2 * num + den) \div (2 * den)

\* C14: the stored sample of v is round(v < 0 ? v * 32768 : v * 32767)
\* after clamping v to [-1, 1]: it lies in -32768..32767, is -32768 for
\* v <= -1, 32767 for v >= 1, and the nearest integer in between (checked
\* on one-channel buffers, where the position of a sample is 44 + 2 * j).
C14_SamplesRounded ==
    (Returned("writeWav") /\ wavCall.numberOfChannels = 1) =>
        \A j \in 0..(wavCall.length - 1) :
            LET num == wavCall.channelData[1][j + 1]
                stored == ReadI16LE(wavOut, HeaderSize + 2 * j)
            IN /\ stored \in -32768..32767
               /\ num <= -SampleDen => stored = -32768
               /\ num >= SampleDen => stored = 32767
               /\ (-SampleDen < num /\ num < SampleDen) =>
                      stored = RoundHalfUp(IF num < 0 THEN num * 32768
                                           ELSE num * 32767, SampleDen)

(***************************************************************************)
(* The sample converters of audio-utils.js.  A Float32Array is a record:   *)
(* name is the variable of the source that holds the object (so that "the  *)
(* same array" can be told from "an equal array"), and sample i is the     *)
(* rational data[i] / den.  The arithmetic is exact: the rounding of       *)
(* doubles and of the float32 store is not modelled.                       *)
(***************************************************************************)
NaN == "NaN"

\* inputArray[index] is undefined (NaN in arithmetic) outside the array.
Defined(array, index) == index \in 0..(Len(array.data) - 1)
At(array, index) == array.data[index + 1]

\* newLength = Math.round(inputArray.length * ratio), ratio =
\* targetRate / originalRate.
ResampleLengthFloor(inputArray, originalRate, targetRate) ==
    (Len(inputArray.data) * targetRate) \div originalRate
ResampleLength(inputArray, originalRate, targetRate) ==
    RoundHalfUp(Len(inputArray.data) * targetRate, originalRate)

\* srcIndex = i / ratio is (i * originalRate) / targetRate.
ResampleIndex0(i, originalRate, targetRate) ==
    (i * originalRate) \div targetRate

ResampleIndex1Unclamped(inputArray, i, originalRate, targetRate) ==
    ResampleIndex0(i, originalRate, targetRate) + 1
ResampleIndex1(inputArray, i, originalRate, targetRate) ==
    Min(ResampleIndex0(i, originalRate, targetRate) + 1,
        Len(inputArray.data) - 1)

\* t = srcIndex - index0, as a numerator over targetRate.
ResampleT(i, originalRate, targetRate) ==
    i * originalRate - ResampleIndex0(i, originalRate, targetRate) * targetRate

\* outputArray[i] = (1 - t) * inputArray[index0] + t * inputArray[index1],
\* as a numerator over inputArray.den * targetRate.
ResampleSampleSwapped(inputArray, i, originalRate, targetRate) ==
    LET index0 == ResampleIndex0(i, originalRate, targetRate)
        index1 == ResampleIndex1(inputArray, i, originalRate, targetRate)
        a == At(inputArray, index0)
        b == At(inputArray, index1)
        t == ResampleT(i, originalRate, targetRate)
    IN IF ~Defined(inputArray, index0) \/ ~Defined(inputArray, index1)
       THEN NaN
       ELSE t * a + (targetRate - t) * b
ResampleSample(inputArray, i, originalRate, targetRate) ==
    LET index0 == ResampleIndex0(i, originalRate, targetRate)
        index1 == ResampleIndex1(inputArray, i, originalRate, targetRate)
        a == At(inputArray, index0)
        b == At(inputArray, index1)
        t == ResampleT(i, originalRate, targetRate)
    IN IF ~Defined(inputArray, index0) \/ ~Defined(inputArray, index1)
       THEN NaN
       ELSE (targetRate - t) * a + t * b

ResampleFloat32Always(inputArray, originalRate, targetRate) ==
    [name |-> "outputArray", den |-> inputArray.den * targetRate,
     data |-> [k \in 1..ResampleLength(inputArray, originalRate, targetRate)
               |-> ResampleSample(inputArray, k - 1, originalRate,
                                  targetRate)]]
ResampleFloat32(inputArray, originalRate, targetRate) ==
    IF originalRate = targetRate THEN inputArray
    ELSE [name |-> "outputArray", den |-> inputArray.den * targetRate,
          data |-> [k \in 1..ResampleLength(inputArray, originalRate,
                                            targetRate)
                    |-> ResampleSample(inputArray, k - 1, originalRate,
                                       targetRate)]]

\* dataView.getInt16(byteOffset, true)
GetUint16LE(pcmData, byteOffset) == ReadU16LE(pcmData, byteOffset)
GetInt16LE(pcmData, byteOffset) == ReadI16LE(pcmData, byteOffset)

\* float32Array[i] = int16 / 32768.0 for each of the length / 2 samples.
DecodePCM16(pcmData) ==
    [name |-> "float32Array", den |-> 32768,
     data |-> [k \in 1..(Len(pcmData) \div 2)
               |-> GetInt16LE(pcmData, (k - 1) * 2)]]

ConvertPCM16ToFloat32Unchecked(pcmData, originalSampleRate, targetSampleRate) ==
    ResampleFloat32(DecodePCM16(pcmData), originalSampleRate, targetSampleRate)
ConvertPCM16ToFloat32(pcmData, originalSampleRate, targetSampleRate) ==
    IF Len(pcmData) % 2 # 0
    THEN [name |-> "new Float32Array(0)", den |-> 1, data |-> <<>>]
    ELSE ResampleFloat32(DecodePCM16(pcmData), originalSampleRate,
                         targetSampleRate)

(***************************************************************************)
(* Inputs of the converters.                                               *)
(***************************************************************************)
MaxSamples == 3

\* Small rates give every ratio shape (equal, integer multiple, fraction,
\* downsampling); the pair 24000 / 44100 is the one the player uses.
DspRates == 1..MaxRate
PlayerRates == {24000, 44100}
Bytes == 0..255

\* The ramp of the resampling scenario: 10 samples, 10 Hz to 20 Hz.
Ramp == [k \in 1..10 |-> k - 1]

ResampleCalls ==
    [fn : {"resampleFloat32"},
     inputArray : [name : {"inputArray"}, den : {SampleDen},
                   data : SeqsUpTo(FloatNums, MaxSamples)],
     originalRate : DspRates, targetRate : DspRates]
    \cup
    [fn : {"resampleFloat32"},
     inputArray : [name : {"inputArray"}, den : {SampleDen},
                   data : SeqsUpTo(FloatNums, 2)],
     originalRate : PlayerRates, targetRate : PlayerRates]
    \cup
    {[fn |-> "resampleFloat32",
      inputArray |-> [name |-> "inputArray", den |-> SampleDen,
                      data |-> Ramp],
      originalRate |-> 10, targetRate |-> 20]}

\* Every 16-bit sample at equal rates; short byte sequences at every rate
\* pair.
ConvertCalls ==
    [fn : {"convertPCM16ToFloat32"}, pcmData : [1..2 -> Bytes],
     originalSampleRate : {24000}, targetSampleRate : {24000}]
    \cup
    [fn : {"convertPCM16ToFloat32"}, pcmData : SeqsUpTo(ByteVals, MaxBytes),
     originalSampleRate : DspRates, targetSampleRate : DspRates]
    \cup
    [fn : {"convertPCM16ToFloat32"}, pcmData : SeqsUpTo(ByteVals, 3),
     originalSampleRate : {24000}, targetSampleRate : {44100}]

\* A converter call is about to be made.
InitDsp ==
    /\ dspCall \in ResampleCalls \cup ConvertCalls
    /\ dspPc = "called"
    /\ dspOut = [name |-> "none", den |-> 1, data |-> <<>>]
    /\ NoPlayback
    /\ NoEncoderCall
    /\ NoApiCall
    /\ NoSseParse
    /\ NoDebounce
    /\ NoThrottle
    /\ NoChatHistory
    /\ NoRestart
    /\ NoModelSelection

CallResampleFloat32 ==
    /\ dspPc = "called"
    /\ dspCall.fn = "resampleFloat32"
    /\ dspOut' = ResampleFloat32(dspCall.inputArray, dspCall.originalRate,
                                 dspCall.targetRate)
    /\ dspPc' = "returned"
    /\ UNCHANGED <<dspCall, notDsp>>

CallConvertPCM16ToFloat32 ==
    /\ dspPc = "called"
    /\ dspCall.fn = "convertPCM16ToFloat32"
    /\ dspOut' = ConvertPCM16ToFloat32(dspCall.pcmData,
                                       dspCall.originalSampleRate,
                                       dspCall.targetSampleRate)
    /\ dspPc' = "returned"
    /\ UNCHANGED <<dspCall, notDsp>>

NextDsp == CallResampleFloat32 \/ CallConvertPCM16ToFloat32

(***************************************************************************)
(* Properties of the converters (checked under SpecDsp).                   *)
(***************************************************************************)
DspReturned(fn) == dspPc = "returned" /\ dspCall.fn = fn

NonDecreasing(data) == \A k \in 1..(Len(data) - 1) : data[k] <= data[k + 1]

\* C15: with equal rates resampleFloat32 returns its input: the same
\* array object, hence the same samples and the same length, the empty
\* array included, for every rate.
C15_EqualRatesReturnInput ==
    (DspReturned("resampleFloat32")
        /\ dspCall.originalRate = dspCall.targetRate) =>
        /\ dspOut.name = "inputArray"
        /\ Len(dspOut.data) = Len(dspCall.inputArray.data)
        /\ dspOut = dspCall.inputArray

C15_Witness ==
    /\ DspReturned("resampleFloat32")
    /\ dspCall.originalRate = dspCall.targetRate
    /\ Len(dspCall.inputArray.data) = MaxSamples
    /\ dspOut.data = dspCall.inputArray.data

\* C16: with different rates resampleFloat32 returns
\* round(inputLength * targetRate / sourceRate) samples, and sample i is
\* (1 - t) * in[i0] + t * in[min(i0 + 1, inputLength - 1)] with
\* i0 = floor(i * sourceRate / targetRate) and
\* t = i * sourceRate / targetRate - i0.
C16_LinearInterpolation ==
    (DspReturned("resampleFloat32")
        /\ dspCall.originalRate # dspCall.targetRate) =>
        LET in == dspCall.inputArray
            n == Len(in.data)
            src == dspCall.originalRate
            tgt == dspCall.targetRate
        IN /\ 2 * Len(dspOut.data) * src <= 2 * n * tgt + src
           /\ 2 * n * tgt + src < 2 * (Len(dspOut.data) + 1) * src
           /\ dspOut.den = in.den * tgt
           /\ \A i \in 0..(Len(dspOut.data) - 1) :
                  LET i0 == (i * src) \div tgt
                      i1 == IF i0 + 1 < n - 1 THEN i0 + 1 ELSE n - 1
                      tNum == i * src - i0 * tgt
                  IN /\ i0 \in 0..(n - 1)
                     /\ dspOut.data[i + 1]
                            = (tgt - tNum) * in.data[i0 + 1]
                                  + tNum * in.data[i1 + 1]

\* A fractional position next to the last input sample, where index1 is
\* clamped.
C16_Witness ==
    /\ DspReturned("resampleFloat32")
    /\ dspCall.originalRate = 2 /\ dspCall.targetRate = 3
    /\ Len(dspCall.inputArray.data) = 2
    /\ Len(dspOut.data) = 3
    /\ dspCall.inputArray.data[1] # dspCall.inputArray.data[2]
    /\ dspOut.data[2] # dspOut.data[3]

\* C17 as stated: for every non-empty non-decreasing input the output is
\* non-decreasing and has input[0] as its first value; when targetRate is
\* k * sourceRate (k >= 2) the output has k * inputLength samples and its
\* last value is the last input sample.
C17_MonotoneWithFirstSample ==
    (DspReturned("resampleFloat32")
        /\ dspCall.inputArray.data # <<>>
        /\ NonDecreasing(dspCall.inputArray.data)) =>
        LET in == dspCall.inputArray
            n == Len(in.data)
            src == dspCall.originalRate
            tgt == dspCall.targetRate
            m == Len(dspOut.data)
        IN /\ NonDecreasing(dspOut.data)
           /\ m >= 1
           /\ dspOut.data[1] * in.den = in.data[1] * dspOut.den
           /\ (tgt % src = 0 /\ tgt >= 2 * src) =>
                  /\ m = (tgt \div src) * n
                  /\ dspOut.data[m] * in.den = in.data[n] * dspOut.den

\* C17 amended: the first value is input[0] whenever there is one; the
\* output is empty when round(inputLength * targetRate / sourceRate) = 0.
C17_MonotoneWithFirstSampleIfAny ==
    (DspReturned("resampleFloat32")
        /\ dspCall.inputArray.data # <<>>
        /\ NonDecreasing(dspCall.inputArray.data)) =>
        LET in == dspCall.inputArray
            n == Len(in.data)
            src == dspCall.originalRate
            tgt == dspCall.targetRate
            m == Len(dspOut.data)
        IN /\ NonDecreasing(dspOut.data)
           /\ m >= 1 => dspOut.data[1] * in.den = in.data[1] * dspOut.den
           /\ m = 0 <=> 2 * n * tgt < src
           /\ (tgt % src = 0 /\ tgt >= 2 * src) =>
                  /\ m = (tgt \div src) * n
                  /\ dspOut.data[m] * in.den = in.data[n] * dspOut.den

\* The ramp of 10 samples from 10 Hz to 20 Hz: 20 samples ending at input[9].
C17_Witness ==
    /\ DspReturned("resampleFloat32")
    /\ dspCall.inputArray.data = Ramp
    /\ dspCall.originalRate = 10 /\ dspCall.targetRate = 20
    /\ Len(dspOut.data) = 20
    /\ dspOut.data[20] * dspCall.inputArray.den = Ramp[10] * dspOut.den

\* C18: for a byte sequence of odd length convertPCM16ToFloat32 returns
\* the empty array, whatever the two rates: no sample of the malformed
\* input is decoded.
C18_OddLengthGivesEmpty ==
    (DspReturned("convertPCM16ToFloat32") /\ Len(dspCall.pcmData) % 2 = 1)
        => dspOut.data = <<>>

C18_Witness ==
    /\ DspReturned("convertPCM16ToFloat32")
    /\ Len(dspCall.pcmData) = 3
    /\ dspCall.originalSampleRate # dspCall.targetSampleRate
    /\ dspOut.data = <<>>

\* C19: decoding a 16-bit sample x at equal rates (x / 32768) and encoding
\* the result with the float-to-int16 mapping of the encoder gives a value
\* within 1 of x, for every x in -32768..32767.
C19_RoundTripWithinOne ==
    (DspReturned("convertPCM16ToFloat32")
        /\ dspCall.originalSampleRate = dspCall.targetSampleRate
        /\ Len(dspCall.pcmData) % 2 = 0) =>
        /\ Len(dspOut.data) = Len(dspCall.pcmData) \div 2
        /\ \A k \in 1..Len(dspOut.data) :
               LET u == dspCall.pcmData[2 * k - 1]
                            + 256 * dspCall.pcmData[2 * k]
                   x == IF u >= 32768 THEN u - 65536 ELSE u
                   y == EncodeSample(dspOut.data[k], dspOut.den)
               IN x - 1 <= y /\ y <= x + 1

\* The most negative sample comes back unchanged.
C19_Witness ==
    /\ DspReturned("convertPCM16ToFloat32")
    /\ dspCall.pcmData = <<0, 128>>
    /\ dspOut.data = <<-32768>>
    /\ EncodeSample(dspOut.data[1], dspOut.den) = -32768

\* C30: for a non-empty input and different rates, every index that
\* resampleFloat32 reads for an output sample (index0 and the clamped
\* index1) lies in 0..inputLength - 1, so no output sample is computed from
\* a missing input; an empty input gives an empty output.
C30_ReadsStayInsideInput ==
    DspReturned("resampleFloat32") =>
        LET in == dspCall.inputArray
            src == dspCall.originalRate
            tgt == dspCall.targetRate
        IN /\ in.data = <<>> => dspOut.data = <<>>
           /\ (in.data # <<>> /\ src # tgt) =>
                  \A i \in 0..(Len(dspOut.data) - 1) :
                      /\ ResampleIndex0(i, src, tgt)
                             \in 0..(Len(in.data) - 1)
                      /\ ResampleIndex1(in, i, src, tgt)
                             \in 0..(Len(in.data) - 1)

\* Downsampling 3 Hz to 2 Hz: the last output sample reads the last two
\* input samples.
C30_Witness ==
    /\ DspReturned("resampleFloat32")
    /\ dspCall.originalRate = 3 /\ dspCall.targetRate = 2
    /\ Len(dspCall.inputArray.data) = 3
    /\ Len(dspOut.data) = 2
    /\ ResampleIndex1(dspCall.inputArray, 1, 3, 2) = 2

(***************************************************************************)
(* The API service (pollinations-api.js): the four request functions and   *)
(* handleError.  A JSON value is a record tagged with its type; of an      *)
(* object only the properties error and message are kept.                  *)
(***************************************************************************)
JUndefined == [type |-> "undefined"]
JNull == [type |-> "null"]
JString(str) == [type |-> "string", str |-> str]
JArray == [type |-> "array"]
JObject(error, message) ==
    [type |-> "object", error |-> error, message |-> message]

\* if (v), v || w
Truthy(v) ==
    CASE v.type \in {"undefined", "null"} -> FALSE
      [] v.type = "string" -> v.str # ""
      [] OTHER -> TRUE

\* v.key throws a TypeError when v is null or undefined.
CanRead(v) == v.type \notin {"undefined", "null"}
Get(v, key) == IF v.type = "object" THEN v[key] ELSE JUndefined

\* The message of new Error(v).
ErrorText(v) ==
    CASE v.type = "string" -> v.str
      [] v.type = "object" -> "[object Object]"
      [] OTHER -> v.type

\* response.ok
Ok(response) == response.status \in 200..299

\* `API Error: ${response.status} ${response.statusText}`
DefaultMessage(response) ==
    "API Error: " \o ToString(response.status) \o " " \o response.statusText

\* The message handleError throws with: the default when response.json()
\* rejects or reading errorData.error throws (both caught), when error is
\* falsy, and when error.message is falsy.
HandleErrorMessageNoFallback(response) ==
    IF ~response.body.json \/ ~CanRead(response.body.value)
    THEN DefaultMessage(response)
    ELSE LET errorData == response.body.value
         IN IF Truthy(Get(errorData, "error"))
            THEN ErrorText(Get(Get(errorData, "error"), "message"))
            ELSE DefaultMessage(response)
HandleErrorMessage(response) ==
    IF ~response.body.json \/ ~CanRead(response.body.value)
    THEN DefaultMessage(response)
    ELSE LET errorData == response.body.value
         IN IF Truthy(Get(errorData, "error"))
            THEN IF Truthy(Get(Get(errorData, "error"), "message"))
                 THEN ErrorText(Get(Get(errorData, "error"), "message"))
                 ELSE DefaultMessage(response)
            ELSE DefaultMessage(response)

\* What a function does with a response that is OK: the value it returns,
\* or the exception of response.json() / models.map.
Outcome(fn, response) ==
    CASE fn = "generateCompletion" ->
             [threw |-> FALSE, value |-> [type |-> "Response",
                                          status |-> response.status]]
      [] fn = "generateSpeech" ->
             [threw |-> FALSE, value |-> [type |-> "Blob"]]
      [] fn = "transcribeAudio" ->
             IF response.body.json
             THEN [threw |-> FALSE, value |-> response.body.value]
             ELSE [threw |-> TRUE, name |-> "SyntaxError"]
      [] fn = "fetchModels" ->
             IF ~response.body.json
             THEN [threw |-> TRUE, name |-> "SyntaxError"]
             ELSE IF response.body.value.type = "array"
                  THEN [threw |-> FALSE, value |-> JArray]
                  ELSE [threw |-> TRUE, name |-> "TypeError"]

ApiFunctions ==
    {"fetchModels", "generateCompletion", "generateSpeech", "transcribeAudio"}
Statuses == {200, 404, 429, 500}
StatusTexts == {"", "Too Many Requests"}
ErrorFields ==
    {JUndefined, JNull, JString(""), JString("quota exceeded"),
     JObject(JUndefined, JUndefined), JObject(JUndefined, JNull),
     JObject(JUndefined, JString("")),
     JObject(JUndefined, JString("Rate limit reached"))}
JsonValues ==
    {JNull, JString("Bad Gateway"), JArray}
    \cup {JObject(e, m) : e \in ErrorFields,
                          m \in {JUndefined, JString("not here")}}
Bodies ==
    {[json |-> FALSE, value |-> JUndefined]}
    \cup [json : {TRUE}, value : JsonValues]
Responses ==
    [kind : {"response"}, status : Statuses, statusText : StatusTexts,
     body : Bodies]
    \cup {[kind |-> "rejected"]}

\* A request function has been called and fetch() is pending.
InitApi ==
    /\ apiCall \in [fn : ApiFunctions, response : Responses]
    /\ apiPc = "fetch"
    /\ apiValue = JUndefined
    /\ apiError = [name |-> "none", message |-> ""]
    /\ NoPlayback
    /\ NoEncoderCall
    /\ NoDspCall
    /\ NoSseParse
    /\ NoDebounce
    /\ NoThrottle
    /\ NoChatHistory
    /\ NoRestart
    /\ NoModelSelection

\* await fetch(...): rejects (network failure) into the catch block, or
\* gives the response, and if (!response.ok) sends it to handleError.
Fetch ==
    /\ apiPc = "fetch"
    /\ IF apiCall.response.kind = "rejected"
       THEN /\ apiError' = [name |-> "TypeError",
                            message |-> "Failed to fetch"]
            /\ apiPc' = "catch"
       ELSE /\ apiPc' = IF Ok(apiCall.response) THEN "read"
                        ELSE "handleError"
            /\ UNCHANGED apiError
    /\ UNCHANGED <<apiCall, apiValue, notApi>>

\* await handleError(response): always ends in throw new Error(...), which
\* lands in the catch block of the caller.
HandleError ==
    /\ apiPc = "handleError"
    /\ apiError' = [name |-> "Error",
                    message |-> HandleErrorMessage(apiCall.response)]
    /\ apiPc' = "catch"
    /\ UNCHANGED <<apiCall, apiValue, notApi>>

\* The rest of the try block for a response that is OK.
ReadResponse ==
    /\ apiPc = "read"
    /\ LET outcome == Outcome(apiCall.fn, apiCall.response)
       IN IF outcome.threw
          THEN /\ apiError' = [name |-> outcome.name, message |-> ""]
               /\ apiPc' = "catch"
               /\ UNCHANGED apiValue
          ELSE /\ apiValue' = outcome.value
               /\ apiPc' = "returned"
               /\ UNCHANGED apiError
    /\ UNCHANGED <<apiCall, notApi>>

\* catch (error) { console.error(...); throw error; }
Rethrow ==
    /\ apiPc = "catch"
    /\ apiPc' = "thrown"
    /\ UNCHANGED <<apiCall, apiValue, apiError, notApi>>

NextApi == Fetch \/ HandleError \/ ReadResponse \/ Rethrow

(***************************************************************************)
(* Properties of the API service (checked under SpecApi).                  *)
(***************************************************************************)
\* The body is JSON carrying a non-empty error.message.
CarriesErrorMessage(body) ==
    /\ body.json
    /\ body.value.type = "object"
    /\ body.value.error.type = "object"
    /\ body.value.error.message.type = "string"
    /\ body.value.error.message.str # ""

\* C20: when the response is not OK, each of the four functions throws an
\* Error and never returns a value: the call is never in a returned state,
\* it can always take a step until it has thrown, and what is thrown is an
\* Error whose message is the body's error.message when the body is JSON
\* carrying a non-empty one, and 'API Error: <status> <statusText>'
\* otherwise.
C20_NotOkThrowsFormattedError ==
    (apiCall.fn \in ApiFunctions /\ apiCall.response.kind = "response"
        /\ apiCall.response.status \notin 200..299) =>
        LET response == apiCall.response
        IN /\ apiPc # "returned"
           /\ apiValue = JUndefined
           /\ apiPc # "thrown" => ENABLED NextApi
           /\ apiPc \in {"catch", "thrown"} =>
                  /\ apiError.name = "Error"
                  /\ apiError.message =
                         IF CarriesErrorMessage(response.body)
                         THEN response.body.value.error.message.str
                         ELSE "API Error: " \o ToString(response.status)
                                  \o " " \o response.statusText

\* A non-JSON error page: the default message is thrown.
C20_Witness ==
    /\ apiPc = "thrown"
    /\ apiCall.fn = "transcribeAudio"
    /\ apiCall.response.kind = "response"
    /\ apiCall.response.status = 429
    /\ ~apiCall.response.body.json
    /\ apiError = [name |-> "Error",
                   message |-> "API Error: 429 Too Many Requests"]

(***************************************************************************)
(* parseSSEStream (pollinations-api.js).  Text is a sequence of            *)
(* characters; a read hands over the next characters of the stream, cut at *)
(* any position (TextDecoder in stream mode gives whole characters).       *)
(***************************************************************************)
NL == "\n"
DataPrefix == <<"d", "a", "t", "a", ":", " ">>
DoneMarker == <<"[", "D", "O", "N", "E", "]">>

\* text.split('\n'): the pieces between the newlines, at least one piece.
RECURSIVE Split(_)
Split(text) ==
    IF \A k \in 1..Len(text) : text[k] # NL THEN <<text>>
    ELSE LET k == CHOOSE j \in 1..Len(text) :
                      text[j] = NL /\ \A h \in 1..(j - 1) : text[h] # NL
         IN <<SubSeq(text, 1, k - 1)>>
                \o Split(SubSeq(text, k + 1, Len(text)))

\* lines.pop(): the piece kept in buffer, and the pieces left in lines.
KeptNothing(lines) == <<>>
Kept(lines) == lines[Len(lines)]
Popped(lines) == SubSeq(lines, 1, Len(lines) - 1)

StartsWith(line, prefix) ==
    Len(line) >= Len(prefix) /\ SubSeq(line, 1, Len(prefix)) = prefix
Slice(line, start) == SubSeq(line, start + 1, Len(line))

\* JSON.parse on the texts of the model: a run of digits is a number,
\* anything else (the empty text too) is a SyntaxError.
Digit(char) == CASE char = "1" -> 1 [] char = "2" -> 2 [] OTHER -> -1
IsJson(data) == data # <<>> /\ \A k \in 1..Len(data) : Digit(data[k]) >= 0
RECURSIVE JsonParse(_)
JsonParse(data) ==
    IF Len(data) = 1 THEN Digit(data[1])
    ELSE 10 * JsonParse(SubSeq(data, 1, Len(data) - 1))
             + Digit(data[Len(data)])

OnChunk(parsed) == [callback |-> "onChunk", arg |-> parsed]
OnComplete == [callback |-> "onComplete", arg |-> 0]
OnError == [callback |-> "onError", arg |-> 0]

\* The data branch of the loop body for a payload that is not [DONE]:
\* onChunk(JSON.parse(data)), or a warning when JSON.parse throws.
DeliverOrFail(data, calls) ==
    IF IsJson(data) THEN Append(calls, OnChunk(JsonParse(data)))
    ELSE Append(calls, OnError)
Deliver(data, calls) ==
    IF IsJson(data) THEN Append(calls, OnChunk(JsonParse(data)))
    ELSE calls

\* for (const line of lines) { ... }: the callbacks called, and whether
\* the function returned at a [DONE] line.
RECURSIVE ProcessLinesPastDone(_, _)
ProcessLinesPastDone(lines, calls) ==
    IF lines = <<>> THEN [calls |-> calls, returned |-> FALSE]
    ELSE LET line == Head(lines)
             data == Slice(line, 6)
         IN IF ~StartsWith(line, DataPrefix)
            THEN ProcessLinesPastDone(Tail(lines), calls)
            ELSE IF data = DoneMarker
                 THEN ProcessLinesPastDone(Tail(lines),
                                           Append(calls, OnComplete))
                 ELSE ProcessLinesPastDone(Tail(lines),
                                           Deliver(data, calls))
RECURSIVE ProcessLines(_, _)
ProcessLines(lines, calls) ==
    IF lines = <<>> THEN [calls |-> calls, returned |-> FALSE]
    ELSE LET line == Head(lines)
             data == Slice(line, 6)
         IN IF ~StartsWith(line, DataPrefix)
            THEN ProcessLines(Tail(lines), calls)
            ELSE IF data = DoneMarker
                 THEN [calls |-> Append(calls, OnComplete),
                       returned |-> TRUE]
                 ELSE ProcessLines(Tail(lines), Deliver(data, calls))

(***************************************************************************)
(* Inputs of parseSSEStream.                                               *)
(***************************************************************************)
MaxLines == 2

SseLines ==
    {DataPrefix \o <<"1">>, DataPrefix \o <<"2">>, DataPrefix \o <<"x">>,
     DataPrefix \o DoneMarker, <<":">>, <<>>}

RECURSIVE JoinLines(_)
JoinLines(lines) ==
    IF lines = <<>> THEN <<>>
    ELSE Head(lines) \o <<NL>> \o JoinLines(Tail(lines))

\* Up to MaxLines lines, the last one with or without its newline.
SseTexts ==
    LET whole == {JoinLines(lines) : lines \in SeqsUpTo(SseLines, MaxLines)}
    IN whole \cup {SubSeq(text, 1, Len(text) - 1) : text \in whole \ {<<>>}}

\* parseSSEStream has been called and awaits its first read.
InitSse ==
    /\ sseStream \in [text : SseTexts, mayFail : BOOLEAN]
    /\ ssePos = 0
    /\ sseBuffer = <<>>
    /\ sseCalls = <<>>
    /\ ssePc = "reading"
    /\ sseJoined = FALSE
    /\ NoPlayback
    /\ NoEncoderCall
    /\ NoDspCall
    /\ NoApiCall
    /\ NoDebounce
    /\ NoThrottle
    /\ NoChatHistory
    /\ NoRestart
    /\ NoModelSelection

\* reader.read() gives the next k characters; the loop body runs on them.
ReadChunk ==
    /\ ssePc = "reading"
    /\ \E k \in 1..(Len(sseStream.text) - ssePos) :
           LET value == SubSeq(sseStream.text, ssePos + 1, ssePos + k)
               lines == Split(sseBuffer \o value)
               result == ProcessLines(Popped(lines), sseCalls)
               first == ProcessLines(<<lines[1]>>, <<>>)
           IN /\ sseBuffer' = Kept(lines)
              /\ sseCalls' = result.calls
              /\ ssePc' = IF result.returned THEN "returned" ELSE "reading"
              /\ sseJoined' = (sseJoined
                                 \/ (/\ sseBuffer # <<>>
                                     /\ Len(lines) > 1
                                     /\ first.calls # <<>>
                                     /\ ~first.returned))
              /\ ssePos' = ssePos + k
    /\ UNCHANGED <<sseStream, notSse>>

\* reader.read() gives done: onComplete, break.
ReadDone ==
    /\ ssePc = "reading"
    /\ ssePos = Len(sseStream.text)
    /\ sseCalls' = Append(sseCalls, OnComplete)
    /\ ssePc' = "returned"
    /\ UNCHANGED <<sseStream, ssePos, sseBuffer, sseJoined, notSse>>

\* reader.read() rejects: onError(error), throw error.
ReadFails ==
    /\ ssePc = "reading"
    /\ sseStream.mayFail
    /\ sseCalls' = Append(sseCalls, OnError)
    /\ ssePc' = "thrown"
    /\ UNCHANGED <<sseStream, ssePos, sseBuffer, sseJoined, notSse>>

NextSse ==
    \/ ReadChunk
    \/ ReadDone
    \/ ReadFails

(***************************************************************************)
(* Properties of parseSSEStream (checked under SpecSse).                   *)
(***************************************************************************)
Positions(callback) ==
    {k \in 1..Len(sseCalls) : sseCalls[k].callback = callback}

\* The payloads handed to onChunk, in order.
Payloads(calls) ==
    LET chunks == SelectSeq(calls, LAMBDA c : c.callback = "onChunk")
    IN [k \in 1..Len(chunks) |-> chunks[k].arg]

\* The newline-terminated lines of a text.
WholeLines(text) == Popped(Split(text))
DoneLine == DataPrefix \o DoneMarker

\* The lines before the first [DONE] line.
RECURSIVE BeforeDone(_)
BeforeDone(lines) ==
    IF lines = <<>> \/ Head(lines) = DoneLine THEN <<>>
    ELSE <<Head(lines)>> \o BeforeDone(Tail(lines))

\* The number of characters up to the end of the first [DONE] line, or 0.
DoneEnd(text) ==
    LET lines == WholeLines(text)
        before == BeforeDone(lines)
    IN IF Len(before) = Len(lines) THEN 0
       ELSE Len(JoinLines(before)) + Len(DoneLine) + 1

\* C21: onComplete is called at most once and no onChunk follows it; a
\* parse that is still reading has not had its [DONE] line and can take a
\* step; a parse that returned has called onComplete exactly once, as its
\* last callback, without onError, at the read that brought the end of the
\* first [DONE] line or, without such a line, at the end of the stream; a
\* parse whose read failed has called onError once, as its last callback,
\* has thrown, and has not called onComplete.
C21_CompleteOnceErrorOnce ==
    LET done == DoneEnd(sseStream.text)
    IN /\ ssePc \in {"reading", "returned", "thrown"} =>
              /\ Cardinality(Positions("onComplete")) <= 1
              /\ \A c \in Positions("onComplete"), k \in Positions("onChunk") :
                     k < c
       /\ ssePc = "reading" =>
              /\ Positions("onComplete") = {}
              /\ Positions("onError") = {}
              /\ done = 0 \/ ssePos < done
              /\ ENABLED NextSse
       /\ ssePc = "returned" =>
              /\ Positions("onComplete") = {Len(sseCalls)}
              /\ Positions("onError") = {}
              /\ IF done > 0 THEN ssePos >= done
                 ELSE ssePos = Len(sseStream.text)
       /\ ssePc = "thrown" =>
              /\ sseStream.mayFail
              /\ Positions("onError") = {Len(sseCalls)}
              /\ Positions("onComplete") = {}

\* A data line follows [DONE] in the same read: it is not delivered.
C21_Witness ==
    /\ ssePc = "returned"
    /\ sseStream.text = DoneLine \o <<NL>> \o DataPrefix \o <<"1", NL>>
    /\ ssePos = Len(sseStream.text)
    /\ sseCalls = <<OnComplete>>

\* C26: the payloads delivered depend only on the text read so far, not on
\* how it was cut into reads: they are the payloads the same text gives
\* when it arrives in one read, so a line cut by one or more reads is
\* delivered once, whole and in its place.
C26_SplitIndependent ==
    ssePc \in {"reading", "returned", "thrown"} =>
        Payloads(sseCalls)
            = Payloads(ProcessLines(
                  WholeLines(SubSeq(sseStream.text, 1, ssePos)), <<>>).calls)

C26_Witness ==
    /\ ssePc = "returned"
    /\ sseJoined
    /\ Payloads(sseCalls) = <<1, 2>>

\* C27: a data line whose payload is not JSON, and a line that does not
\* start with 'data: ', cause no callback and do not end the parse: the
\* callbacks are one onChunk for every valid data line before the first
\* [DONE] line, in order, and nothing else until the parse ends.
C27_BadLinesSkipped ==
    ssePc \in {"reading", "returned", "thrown"} =>
        LET lines == BeforeDone(WholeLines(SubSeq(sseStream.text, 1, ssePos)))
            valid == SelectSeq(lines, LAMBDA l :
                         StartsWith(l, DataPrefix) /\ IsJson(Slice(l, 6)))
            ended == IF ssePc = "reading" THEN 0 ELSE 1
        IN /\ Len(sseCalls) = Len(valid) + ended
           /\ \A k \in 1..Len(valid) :
                  sseCalls[k] = OnChunk(JsonParse(Slice(valid[k], 6)))

\* An invalid payload, then a valid one.
C27_Witness ==
    /\ ssePc = "returned"
    /\ sseStream.text
           = DataPrefix \o <<"x", NL>> \o DataPrefix \o <<"2", NL>>
    /\ sseCalls = <<OnChunk(2), OnComplete>>

(***************************************************************************)
(* debounce (helpers.js).  Time is counted in ticks; a timer set with      *)
(* setTimeout(f, wait) runs at its due time or later, never sooner, and    *)
(* not at all once it is cleared.                                          *)
(***************************************************************************)
MaxTime == 4
MaxWait == 2
MaxCalls == 3
Args == {"a", "b"}

\* clearTimeout(id): the timer with this id, if it is pending, is dropped.
ClearTimeoutIgnored(timers, id) == timers
ClearTimeout(timers, id) == {t \in timers : t.id # id}

\* setTimeout(later, delay) at time now: a pending timer with a new id.
SetTimeout(timers, id, now, delay, args) ==
    timers \cup {[id |-> id, due |-> now + delay, args |-> args]}

\* debounce(func, wait) has returned executedFunction; timeout is
\* undefined.
InitDebounce ==
    /\ dbWait \in 1..MaxWait
    /\ dbNow = 0
    /\ dbTimeout = 0
    /\ dbTimers = {}
    /\ dbCalls = <<>>
    /\ dbInvoked = <<>>
    /\ NoPlayback
    /\ NoEncoderCall
    /\ NoDspCall
    /\ NoApiCall
    /\ NoSseParse
    /\ NoThrottle
    /\ NoChatHistory
    /\ NoRestart
    /\ NoModelSelection

\* executedFunction(...args): clearTimeout(timeout);
\* timeout = setTimeout(later, wait).
ExecutedFunction(args) ==
    /\ Len(dbCalls) < MaxCalls
    /\ LET id == Len(dbCalls) + 1
       IN /\ dbTimers' = SetTimeout(ClearTimeout(dbTimers, dbTimeout), id,
                                    dbNow, dbWait, args)
          /\ dbTimeout' = id
    /\ dbCalls' = Append(dbCalls, [time |-> dbNow, args |-> args])
    /\ UNCHANGED <<dbWait, dbNow, dbInvoked, notDebounce>>

\* A due timer runs later(): clearTimeout(timeout); func(...args).
Later ==
    /\ \E t \in dbTimers :
           /\ dbNow >= t.due
           /\ dbTimers' = ClearTimeout(dbTimers \ {t}, dbTimeout)
           /\ dbInvoked' = Append(dbInvoked,
                                  [time |-> dbNow, args |-> t.args,
                                   after |-> Len(dbCalls)])
    /\ UNCHANGED <<dbWait, dbNow, dbTimeout, dbCalls, notDebounce>>

\* One tick passes.
DebounceTick ==
    /\ dbNow < MaxTime
    /\ dbNow' = dbNow + 1
    /\ UNCHANGED <<dbWait, dbTimeout, dbTimers, dbCalls, dbInvoked,
                   notDebounce>>

NextDebounce ==
    \/ \E args \in Args : ExecutedFunction(args)
    \/ Later
    \/ DebounceTick

(***************************************************************************)
(* Properties of debounce (checked under SpecDebounce).                    *)
(***************************************************************************)
\* The invocations of func made after call i of the wrapper and before
\* call i + 1.
InvokedAfter(i) == {k \in 1..Len(dbInvoked) : dbInvoked[k].after = i}

\* Call i is the last of its burst: the next call, if any, comes wait or
\* more after it.
EndsBurst(i) ==
    i = Len(dbCalls) \/ dbCalls[i + 1].time - dbCalls[i].time >= dbWait

\* What holds of every invocation and inside every burst.
DebounceSafe ==
    /\ \A k \in 1..Len(dbInvoked) :
           /\ dbInvoked[k].after \in 1..Len(dbCalls)
           /\ dbInvoked[k].time >= dbCalls[dbInvoked[k].after].time + dbWait
           /\ dbInvoked[k].args = dbCalls[dbInvoked[k].after].args
    /\ \A i \in 1..Len(dbCalls) :
           /\ Cardinality(InvokedAfter(i)) <= 1
           /\ ~EndsBurst(i) => InvokedAfter(i) = {}

\* C22 as stated: func is never invoked sooner than wait after the most
\* recent call of the wrapper, and every burst (calls less than wait
\* apart) results in exactly one invocation, with the arguments of its
\* last call: once the next burst has begun, the burst before it has had
\* its invocation.
C22_OneInvocationPerBurst ==
    /\ DebounceSafe
    /\ \A i \in 1..(Len(dbCalls) - 1) :
           EndsBurst(i) => Cardinality(InvokedAfter(i)) = 1

\* C22 amended: a burst results in at most one invocation, and in exactly
\* one when the timer of its last call runs before the wrapper is called
\* again: until then that timer, and no other, is pending.
C22_OneInvocationUnlessCalledAgain ==
    /\ DebounceSafe
    /\ Len(dbCalls) > 0 =>
           LET last == dbCalls[Len(dbCalls)]
           IN IF InvokedAfter(Len(dbCalls)) = {}
              THEN dbTimers = {[id |-> dbTimeout, due |-> last.time + dbWait,
                                args |-> last.args]}
              ELSE dbTimers = {}

\* A burst of two calls less than wait apart: one invocation, with the
\* arguments of the second call.
C22_Witness ==
    /\ dbWait = 2
    /\ Len(dbCalls) = 2
    /\ dbCalls[1].args = "a" /\ dbCalls[2].args = "b"
    /\ dbCalls[2].time - dbCalls[1].time = 1
    /\ Len(dbInvoked) = 1
    /\ dbInvoked[1].args = "b"
    /\ dbInvoked[1].time = dbCalls[2].time + dbWait

(***************************************************************************)
(* throttle (helpers.js), with the same clock and timers as debounce.      *)
(***************************************************************************)
\* throttle(func, limit) has returned the wrapper; inThrottle is undefined
\* (falsy).
InitThrottle ==
    /\ thLimit \in 1..MaxWait
    /\ thNow = 0
    /\ inThrottle = FALSE
    /\ thTimers = {}
    /\ thCalls = <<>>
    /\ thInvoked = <<>>
    /\ NoPlayback
    /\ NoEncoderCall
    /\ NoDspCall
    /\ NoApiCall
    /\ NoSseParse
    /\ NoDebounce
    /\ NoChatHistory
    /\ NoRestart
    /\ NoModelSelection

\* The wrapper's test: if (!inThrottle).
BlockedNever(flag) == FALSE
Blocked(flag) == flag

\* The wrapper is called: if (!inThrottle) { func.apply(this, args);
\* inThrottle = true; setTimeout(() => inThrottle = false, limit); }
ThrottledCall(args) ==
    /\ Len(thCalls) < MaxCalls
    /\ IF Blocked(inThrottle)
       THEN /\ thCalls' = Append(thCalls, [time |-> thNow, args |-> args,
                                           executed |-> FALSE])
            /\ UNCHANGED <<inThrottle, thTimers, thInvoked>>
       ELSE /\ thCalls' = Append(thCalls, [time |-> thNow, args |-> args,
                                           executed |-> TRUE])
            /\ thInvoked' = Append(thInvoked,
                                   [time |-> thNow, args |-> args,
                                    after |-> Len(thCalls) + 1])
            /\ inThrottle' = TRUE
            /\ thTimers' = SetTimeout(thTimers, Len(thCalls) + 1, thNow,
                                      thLimit, args)
    /\ UNCHANGED <<thLimit, thNow, notThrottle>>

\* A due timer runs () => inThrottle = false.
Release ==
    /\ \E t \in thTimers :
           /\ thNow >= t.due
           /\ thTimers' = thTimers \ {t}
           /\ inThrottle' = FALSE
    /\ UNCHANGED <<thLimit, thNow, thCalls, thInvoked, notThrottle>>

\* One tick passes.
ThrottleTick ==
    /\ thNow < MaxTime
    /\ thNow' = thNow + 1
    /\ UNCHANGED <<thLimit, inThrottle, thTimers, thCalls, thInvoked,
                   notThrottle>>

NextThrottle ==
    \/ \E args \in Args : ThrottledCall(args)
    \/ Release
    \/ ThrottleTick

(***************************************************************************)
(* Properties of throttle (checked under SpecThrottle).                    *)
(***************************************************************************)
\* The calls of the wrapper that were executed, before call i.
ExecutedBefore(i) == {j \in 1..(i - 1) : thCalls[j].executed}

MaxHistory == 4
Roles == {"user", "assistant"}

\* The hook is mounted: useState(false), useState([]).
InitMemory ==
    /\ enableMemory = FALSE
    /\ chatHistory = <<>>
    /\ memOp = "mount"
    /\ memAnswer = "not asked"
    /\ NoPlayback
    /\ NoEncoderCall
    /\ NoDspCall
    /\ NoApiCall
    /\ NoSseParse
    /\ NoDebounce
    /\ NoThrottle
    /\ NoRestart
    /\ NoModelSelection

\* The component appends a message: setChatHistory([...chatHistory, m]).
SetChatHistory(role) ==
    /\ Len(chatHistory) < MaxHistory
    /\ chatHistory' = Append(chatHistory, role)
    /\ memOp' = "setChatHistory"
    /\ memAnswer' = "not asked"
    /\ UNCHANGED <<enableMemory, notMemory>>

\* chatHistory.length > 0 && window.confirm(...): the dialog is shown only
\* when the history is not empty.
AsksAlways(history) == TRUE
Asks(history) == Len(history) > 0

\* handleMemoryToggle, with the answer the user gives if asked.
HandleMemoryToggle(confirm) ==
    /\ IF enableMemory
       THEN /\ IF Asks(chatHistory)
               THEN /\ memAnswer' = IF confirm THEN "confirmed"
                                    ELSE "declined"
                    /\ chatHistory' = IF confirm THEN <<>> ELSE chatHistory
               ELSE /\ memAnswer' = "not asked"
                    /\ UNCHANGED chatHistory
            /\ enableMemory' = FALSE
       ELSE /\ enableMemory' = TRUE
            /\ memAnswer' = "not asked"
            /\ UNCHANGED chatHistory
    /\ memOp' = "handleMemoryToggle"
    /\ UNCHANGED notMemory

NextMemory ==
    \/ \E role \in Roles : SetChatHistory(role)
    \/ \E confirm \in BOOLEAN : HandleMemoryToggle(confirm)

(***************************************************************************)
(* Properties of useChatHistory (checked under SpecMemory).                *)
(***************************************************************************)
\* C29: a step of handleMemoryToggle flips enableMemory; it empties
\* chatHistory when memory was enabled, the history was not empty and the
\* user confirmed, and leaves chatHistory as it was in every other case
\* (enabling, disabling with an empty history where nothing is asked,
\* disabling with the confirmation declined).
C29_ToggleFlipsAndClearsOnConfirm ==
    [][memOp' = "handleMemoryToggle" =>
          \/ UNCHANGED vars
          \/ /\ enableMemory' = ~enableMemory
             /\ IF enableMemory /\ chatHistory # <<>>
                   /\ memAnswer' = "confirmed"
                THEN chatHistory' = <<>>
                ELSE chatHistory' = chatHistory
             /\ memAnswer' # "not asked"
                    <=> (enableMemory /\ chatHistory # <<>>)]_vars

\* Memory was disabled with the confirmation declined: the history is kept.
C29_Witness ==
    /\ memOp = "handleMemoryToggle"
    /\ memAnswer = "declined"
    /\ ~enableMemory
    /\ Len(chatHistory) = 2

(***************************************************************************)
(* restartAudioWorklet and setupAudioWorklet (audio-worklet-setup.js).     *)
(* Call k creates AudioContext k and, when addModule resolves, worklet     *)
(* node k in that context.                                                 *)
(***************************************************************************)
MaxRestarts == 3
Null == 0

\* The app is mounted: both refs are null, nothing is created.
InitRestart ==
    /\ awCalls = <<>>
    /\ awCreated = {}
    /\ awConnected = {}
    /\ awNodeRef = Null
    /\ awCtxRef = Null
    /\ NoPlayback
    /\ NoEncoderCall
    /\ NoDspCall
    /\ NoApiCall
    /\ NoSseParse
    /\ NoDebounce
    /\ NoThrottle
    /\ NoChatHistory
    /\ NoModelSelection

\* restartAudioWorklet up to its await: the node in the ref is
\* disconnected and the ref set to null; setupAudioWorklet creates its
\* AudioContext and awaits addModule.
RestartAudioWorklet ==
    /\ Len(awCalls) < MaxRestarts
    /\ awConnected' = IF awNodeRef # Null THEN awConnected \ {awNodeRef}
                      ELSE awConnected
    /\ awNodeRef' = Null
    /\ awCalls' = Append(awCalls, "addModule")
    /\ UNCHANGED <<awCreated, awCtxRef, notRestart>>

\* addModule resolves for call k: new AudioWorkletNode, connect, return.
AddModuleResolves ==
    \E k \in 1..Len(awCalls) :
    /\ awCalls[k] = "addModule"
    /\ awCreated' = awCreated \cup {k}
    /\ awConnected' = awConnected \cup {k}
    /\ awCalls' = [awCalls EXCEPT ![k] = "setupReturned"]
    /\ UNCHANGED <<awNodeRef, awCtxRef, notRestart>>

\* addModule rejects for call k: setupAudioWorklet and restartAudioWorklet
\* throw.
AddModuleRejects ==
    \E k \in 1..Len(awCalls) :
    /\ awCalls[k] = "addModule"
    /\ awCalls' = [awCalls EXCEPT ![k] = "thrown"]
    /\ UNCHANGED <<awCreated, awConnected, awNodeRef, awCtxRef, notRestart>>

\* The rest of restartAudioWorklet for call k: both refs are assigned.
AssignRefs ==
    \E k \in 1..Len(awCalls) :
    /\ awCalls[k] = "setupReturned"
    /\ awCtxRef' = k
    /\ awNodeRef' = k
    /\ awCalls' = [awCalls EXCEPT ![k] = "done"]
    /\ UNCHANGED <<awCreated, awConnected, notRestart>>

NextRestart ==
    \/ RestartAudioWorklet
    \/ AddModuleResolves
    \/ AddModuleRejects
    \/ AssignRefs

(***************************************************************************)
(* Properties of restartAudioWorklet (checked under SpecRestart).          *)
(***************************************************************************)
\* No call is between its beginning and its end.
NoRestartRunning ==
    \A k \in 1..Len(awCalls) : awCalls[k] \in {"done", "thrown"}

\* C28: after any calls of restartAudioWorklet, overlapping ones included,
\* every node created that is not the one in workletNodeRef.current is
\* disconnected, so at most one node is connected, and
\* audioContextRef.current is the context of the node in
\* workletNodeRef.current.
C28_OnlyTheRefNodeConnected ==
    NoRestartRunning =>
        /\ \A node \in awCreated : node # awNodeRef => node \notin awConnected
        /\ Cardinality(awConnected) <= 1
        /\ awNodeRef # Null => awCtxRef = awNodeRef

(***************************************************************************)
(* useModelSelection (pollinations-api.js).  A model is a record           *)
(* [id, name, vision, audio]; a model without a vision or audio field has  *)
(* FALSE there (undefined === true is false, !undefined is true).          *)
(* lastSelectedModels maps a tab to a model name, "" where it has none;    *)
(* nothing in the sources calls setLastSelectedModels, so it stays what    *)
(* localStorage held at mount.  msDirty holds the dependencies that        *)
(* changed since the effects last ran; all of them at mount.               *)
(***************************************************************************)
MaxInFlight == 2
Tabs == {"text", "vision", "audio"}
Deps == {"tab", "apiKey", "models", "voice", "model"}

Model(id, name, vision, audio) ==
    [id |-> id, name |-> name, vision |-> vision, audio |-> audio]

\* What fetchModels can resolve to.
FetchedLists ==
    { <<Model("openai", "openai", TRUE, FALSE),
        Model("openai-audio", "openai-audio", FALSE, TRUE),
        Model("mistral", "mistral", FALSE, FALSE)>>,
      <<Model("gemini", "gemini", TRUE, TRUE),
        Model("mistral", "mistral", FALSE, FALSE)>>,
      <<Model("default", "default", FALSE, FALSE)>>,
      <<>> }

\* What localStorage can hold under 'lastSelectedModels'.
SavedSelections ==
    { [t \in Tabs |-> ""],
      [t \in Tabs |-> IF t = "text" THEN "mistral" ELSE "openai-audio"] }

Names(list) == {list[i].name : i \in DOMAIN list}

FilterModelsByTab(allModels, tab) ==
    SelectSeq(allModels,
              LAMBDA m : CASE tab = "vision" -> m.vision
                           [] tab \in {"audio", "speech"} -> m.audio
                           [] OTHER -> TRUE)

GetFilteredModels(models, tab, voice) ==
    LET filtered == FilterModelsByTab(models, tab)
    IN  IF voice THEN SelectSeq(filtered, LAMBDA m : m.audio) ELSE filtered

\* The model both the fetch and the re-filter effect select from a
\* non-empty filtered list.
Selected(filtered, lastSelected) ==
    IF lastSelected # "" /\ lastSelected \in Names(filtered)
    THEN lastSelected
    ELSE IF filtered[1].name # "" THEN filtered[1].name ELSE "default"

DefaultModels == <<Model("default", "default", FALSE, FALSE)>>
ErrorModels == <<Model("default", "Default Model", FALSE, FALSE)>>

CombinedModels(formatted) ==
    LET loaded == SelectSeq(formatted, LAMBDA m : m.id # "default")
    IN  IF Len(loaded) > 0 THEN loaded ELSE DefaultModels

\* The model after the fetch started under tab has resolved to formatted
\* (ok) or has thrown.
FetchedModel(ok, formatted, tab, model, last) ==
    IF ok
    THEN LET filtered == FilterModelsByTab(CombinedModels(formatted), tab)
         IN  IF Len(filtered) > 0 THEN Selected(filtered, last[tab])
             ELSE model
    ELSE ErrorModels[1].name

\* The re-filter effect: the model it leaves selected.
Refiltered(models, tab, voice, model, last) ==
    LET filtered == GetFilteredModels(models, tab, voice)
    IN  IF Len(filtered) > 0 /\ model \notin Names(filtered)
        THEN Selected(filtered, last[tab])
        ELSE model

Find(models, name) ==
    LET hits == SelectSeq(models, LAMBDA m : m.name = name)
    IN  IF Len(hits) > 0 THEN <<hits[1]>> ELSE <<>>

AutoDisablesNever(models, model, voice) == FALSE

\* The auto-disable effect calls setVoiceToAudio(false).
AutoDisables(models, model, voice) ==
    LET currentModel == Find(models, model)
    IN  voice /\ currentModel # <<>> /\ ~currentModel[1].audio

RunsFetch(dirty) == dirty \cap {"tab", "apiKey"} # {}
RunsRefilter(dirty) == dirty \cap {"tab", "models", "voice"} # {}
RunsAutoDisable(dirty) == dirty \cap {"model", "models", "voice"} # {}

\* No effect is left to run.
Settled == msDirty = {}

\* The component mounts: every effect is due.
InitSelect ==
    /\ msBatched \in BOOLEAN
    /\ msTab \in Tabs
    /\ msVoice \in BOOLEAN
    /\ msModels = <<>>
    /\ msModel = "openai"
    /\ msLast \in SavedSelections
    /\ msFetches = <<>>
    /\ msDirty = Deps
    /\ msFired = {}
    /\ NoPlayback
    /\ NoEncoderCall
    /\ NoDspCall
    /\ NoApiCall
    /\ NoSseParse
    /\ NoDebounce
    /\ NoThrottle
    /\ NoChatHistory
    /\ NoRestart

\* One pass of the effects after a render: those with a changed dependency
\* run in order against the rendered values; the state they set is
\* rendered next.
RunEffects ==
    /\ ~Settled
    /\ LET refilters == RunsRefilter(msDirty)
           disables == /\ RunsAutoDisable(msDirty)
                       /\ AutoDisables(msModels, msModel, msVoice)
           newModel == IF refilters
                       THEN Refiltered(msModels, msTab, msVoice, msModel,
                                       msLast)
                       ELSE msModel
       IN  /\ msFetches' = IF RunsFetch(msDirty)
                           THEN Append(msFetches, msTab) ELSE msFetches
           /\ msModel' = newModel
           /\ msVoice' = IF disables THEN FALSE ELSE msVoice
           /\ msDirty' = {d \in {"model"} : newModel # msModel}
                         \cup {d \in {"voice"} : disables}
           /\ msFired' = {e \in {"refilter"} : newModel # msModel}
                         \cup {e \in {"autoDisable"} : disables}
    /\ UNCHANGED <<msBatched, msTab, msModels, msLast, notSelect>>

\* The app renders the hook with another activeTab.
ChangeTab(tab) ==
    /\ Settled
    /\ tab # msTab
    /\ Len(msFetches) < MaxInFlight
    /\ msTab' = tab
    /\ msDirty' = {"tab"}
    /\ msFired' = {}
    /\ UNCHANGED <<msBatched, msVoice, msModels, msModel, msLast, msFetches,
                   notSelect>>

\* The app renders the hook with another apiKey.
ChangeApiKey ==
    /\ Settled
    /\ Len(msFetches) < MaxInFlight
    /\ msDirty' = {"apiKey"}
    /\ msFired' = {}
    /\ UNCHANGED <<msBatched, msTab, msVoice, msModels, msModel, msLast,
                   msFetches, notSelect>>

\* The app renders the hook with the other voiceToAudio.
ChangeVoiceToAudio ==
    /\ Settled
    /\ msVoice' = ~msVoice
    /\ msDirty' = {"voice"}
    /\ msFired' = {}
    /\ UNCHANGED <<msBatched, msTab, msModels, msModel, msLast, msFetches,
                   notSelect>>

\* The user selects a model of the list shown: setModel(name).
SetModel ==
    \E name \in Names(GetFilteredModels(msModels, msTab, msVoice)) :
    /\ Settled
    /\ name # msModel
    /\ msModel' = name
    /\ msDirty' = {"model"}
    /\ msFired' = {}
    /\ UNCHANGED <<msBatched, msTab, msVoice, msModels, msLast, msFetches,
                   notSelect>>

\* The i-th fetch in flight resolves or throws: setModels, then setModel.
\* Batched, both are rendered together.  Unbatched, setModels is rendered
\* on its own; the effects of that render run when setModel asks for the
\* next render, after setModel has queued its state, so a model set by the
\* re-filter effect is the later one in the queue.
FetchCompletes(i, ok, formatted) ==
    /\ Settled
    /\ i \in DOMAIN msFetches
    /\ LET tab == msFetches[i]
           models == IF ok THEN CombinedModels(formatted) ELSE ErrorModels
           fetched == FetchedModel(ok, formatted, tab, msModel, msLast)
           refiltered == Refiltered(models, msTab, msVoice, msModel, msLast)
           disables == AutoDisables(models, msModel, msVoice)
           newModel == IF refiltered # msModel THEN refiltered ELSE fetched
       IN  /\ msFetches' = [j \in 1..(Len(msFetches) - 1) |->
                               IF j < i THEN msFetches[j]
                               ELSE msFetches[j + 1]]
           /\ msModels' = models
           /\ IF msBatched
              THEN /\ msModel' = fetched
                   /\ msVoice' = msVoice
                   /\ msDirty' = {"models"}
                                 \cup {d \in {"model"} : fetched # msModel}
                   /\ msFired' = {}
              ELSE /\ msModel' = newModel
                   /\ msVoice' = IF disables THEN FALSE ELSE msVoice
                   /\ msDirty' = {d \in {"model"} : newModel # msModel}
                                 \cup {d \in {"voice"} : disables}
                   /\ msFired' = {e \in {"refilter"} : refiltered # msModel}
                                 \cup {e \in {"autoDisable"} : disables}
    /\ UNCHANGED <<msBatched, msTab, msLast, notSelect>>

NextSelect ==
    \/ RunEffects
    \/ \E tab \in Tabs : ChangeTab(tab)
    \/ ChangeApiKey
    \/ ChangeVoiceToAudio
    \/ SetModel
    \/ \E i \in 1..MaxInFlight, ok \in BOOLEAN, formatted \in FetchedLists :
           FetchCompletes(i, ok, formatted)

(***************************************************************************)
(* Properties of useModelSelection (checked under SpecSelect).             *)
(***************************************************************************)
\* C24: in every settled state (no effect left to run) voiceToAudio being
\* on implies that the selected model has the audio capability or is not in
\* the model list: while it is in the list without it, the auto-disable
\* effect turns voiceToAudio off.
C24_VoiceOnlyWithAudioModel ==
    (Settled /\ msVoice) =>
        \/ msModel \notin Names(msModels)
        \/ Find(msModels, msModel)[1].audio

\* The auto-disable effect has just turned voiceToAudio off for a model of
\* the list.
C24_Witness ==
    /\ "autoDisable" \in msFired
    /\ ~msVoice
    /\ msModel \in Names(msModels)
    /\ ~Find(msModels, msModel)[1].audio

\* C25: once all effects have run, if the model list filtered by the active
\* tab and by voiceToAudio is not empty, the selected model is in it,
\* whatever tab changes, voiceToAudio changes and fetch completions came
\* before, fetches completing after a later tab change included.
C25_SelectedModelInFilteredList ==
    Settled =>
        LET filtered == GetFilteredModels(msModels, msTab, msVoice)
        IN  Len(filtered) > 0 => msModel \in Names(filtered)

(***************************************************************************)
(* Specifications.                                                         *)
(***************************************************************************)
Init ==
    /\ bufferQueue = <<>>
    /\ buffer = <<>>
    /\ shouldStop = FALSE
    /\ port = <<>>
    /\ outputLength \in 1..MaxBlock
    /\ numChannels \in ChannelCounts
    /\ output = <<>>
    /\ ret = TRUE
    /\ pushed = <<>>
    /\ emitted = <<>>
    /\ op = "init"
    /\ posts = 0
    /\ sent = 0
    /\ stopTotal = -1
    /\ stopEmpty = FALSE
    /\ callsSinceStop = 0
    /\ pushedSinceStop = FALSE
    /\ NoEncoderCall
    /\ NoDspCall
    /\ NoApiCall
    /\ NoSseParse
    /\ NoDebounce
    /\ NoThrottle
    /\ NoChatHistory
    /\ NoRestart
    /\ NoModelSelection
Next == NextPCM
Spec == Init /\ [][Next]_vars

SpecWav == InitWav /\ [][NextWav]_vars

SpecDsp == InitDsp /\ [][NextDsp]_vars

SpecApi == InitApi /\ [][NextApi]_vars

SpecSse == InitSse /\ [][NextSse]_vars

SpecDebounce == InitDebounce /\ [][NextDebounce]_vars

SpecThrottle == InitThrottle /\ [][NextThrottle]_vars

SpecMemory == InitMemory /\ [][NextMemory]_vars

SpecRestart == InitRestart /\ [][NextRestart]_vars

SpecSelect == InitSelect /\ [][NextSelect]_vars

=============================================================================
